---- MODULE Spec2Model ----
(***************************************************************************)
(* Transform engine of the analytics ETL pipeline (internal/transforms.py  *)
(* with the DDL of internal/schema.py): the four INSERT ... SELECT steps   *)
(* of DataTransformer.transform_all over the staging tables, and the two   *)
(* passes of DataValidator (internal/validation.py) over the staging and   *)
(* the target tables.                                                      *)
(*                                                                         *)
(* Representation.                                                         *)
(*  - A nullable SQL value is a sequence of length at most one: <<>> is    *)
(*    NULL, <<v>> is the value v.                                          *)
(*  - A VARCHAR is a tuple of one-character strings.                       *)
(*  - A DECIMAL(w, s) is the integer value * 10^s (amounts are cents).     *)
(*  - A DATE / TIMESTAMP is a day number (days since 1970-01-01); inputs   *)
(*    are date-only strings, so the time of day is always midnight.        *)
(*  - A table is a sequence of rows (staging: in _row_id order; targets:   *)
(*    in insertion order); the order carries no meaning, it only keeps     *)
(*    physically duplicated rows apart.                                    *)
(*  - Columns that no constraint and no later step reads (city, country,   *)
(*    favorite_team, membership_tier, gender, currency, description,       *)
(*    source, text, tags, _loaded_at) are left out of the rows.            *)
(***************************************************************************)
EXTENDS Integers, Sequences, FiniteSets, TLC

VARIABLES raw_customers, raw_transactions, raw_sentiment,
          dim_customers, fact_transactions, fact_sentiment, customer_profile,
          tables_exist, steps, pc, runs, validation, validator_report

vars == <<raw_customers, raw_transactions, raw_sentiment,
          dim_customers, fact_transactions, fact_sentiment, customer_profile,
          tables_exist, steps, pc, runs, validation, validator_report>>

----------------------------------------------------------------------------
(* Nullable values *)

NULL == <<>>

Some(v) == <<v>>

IsNull(x) == x = NULL

Val(x) == x[1]

----------------------------------------------------------------------------
(* Strings: LOWER, TRIM, REPLACE, LIKE '%...%' *)

UpperCase == <<"A","B","C","D","E","F","G","H","I","J","K","L","M",
               "N","O","P","Q","R","S","T","U","V","W","X","Y","Z">>

LowerCase == <<"a","b","c","d","e","f","g","h","i","j","k","l","m",
               "n","o","p","q","r","s","t","u","v","w","x","y","z">>

LowerOf == [c \in {UpperCase[i] : i \in 1..26} |->
              LowerCase[CHOOSE i \in 1..26 : UpperCase[i] = c]]

LowerChar(c) == IF c \in DOMAIN LowerOf THEN LowerOf[c] ELSE c

\* LOWER(s): NULL stays NULL
LOWER(x) == IF IsNull(x) THEN NULL
            ELSE Some([i \in 1..Len(Val(x)) |-> LowerChar(Val(x)[i])])

RECURSIVE TrimLeft(_)
TrimLeft(s) == IF s # <<>> /\ Head(s) = " " THEN TrimLeft(Tail(s)) ELSE s

RECURSIVE TrimRight(_)
TrimRight(s) == IF s # <<>> /\ s[Len(s)] = " "
                THEN TrimRight(SubSeq(s, 1, Len(s) - 1)) ELSE s

TrimChars(s) == TrimRight(TrimLeft(s))

\* TRIM(s): strips leading and trailing spaces; NULL stays NULL
TRIM(x) == IF IsNull(x) THEN NULL ELSE Some(TrimChars(Val(x)))

\* REPLACE(s, from, to) for one-character from / to
REPLACE(x, from, to) ==
  IF IsNull(x) THEN NULL
  ELSE Some([i \in 1..Len(Val(x)) |-> IF Val(x)[i] = from THEN to ELSE Val(x)[i]])

COALESCE(x, y) == IF IsNull(x) THEN y ELSE x

\* s LIKE '%pat%': pat occurs in s as a contiguous substring
Contains(s, pat) ==
  \E i \in 1..(Len(s) - Len(pat) + 1) : SubSeq(s, i, i + Len(pat) - 1) = pat

----------------------------------------------------------------------------
(* TRY_CAST of a VARCHAR to INTEGER, DECIMAL(w, s), DATE / TIMESTAMP *)

Digits == <<"0","1","2","3","4","5","6","7","8","9">>

DigitOf == [c \in {Digits[i] : i \in 1..10} |->
              (CHOOSE i \in 1..10 : Digits[i] = c) - 1]

IsDigit(c) == c \in DOMAIN DigitOf

DigitVal(c) == DigitOf[c]

RECURSIVE DigitsVal(_)
DigitsVal(s) == IF s = <<>> THEN 0
                ELSE 10 * DigitsVal(SubSeq(s, 1, Len(s) - 1)) + DigitVal(s[Len(s)])

RECURSIVE Pow10(_)
Pow10(n) == IF n = 0 THEN 1 ELSE 10 * Pow10(n - 1)

\* The lexical shape of a number: [sign] digits [. digits], surrounding
\* spaces ignored.  Anything else (letters, a decimal comma, an empty
\* string) is not a number.
NumberBody(s) ==
  LET t == TrimChars(s)
  IN  IF t # <<>> /\ t[1] \in {"-", "+"} THEN Tail(t) ELSE t

IsNegative(s) == LET t == TrimChars(s) IN t # <<>> /\ t[1] = "-"

DotPos(b) == {i \in 1..Len(b) : b[i] = "."}

IsNumber(s) ==
  LET b == NumberBody(s)
  IN  /\ Cardinality(DotPos(b)) <= 1
      /\ \A i \in 1..Len(b) : IsDigit(b[i]) \/ b[i] = "."
      /\ \E i \in 1..Len(b) : IsDigit(b[i])

\* The number times 10^scale, rounded half away from zero.
ScaledValue(s, scale) ==
  LET b     == NumberBody(s)
      dot   == IF DotPos(b) = {} THEN Len(b) + 1 ELSE CHOOSE i \in DotPos(b) : TRUE
      ip    == SubSeq(b, 1, dot - 1)
      fp    == SubSeq(b, dot + 1, Len(b))
      kept  == [i \in 1..scale |-> IF i <= Len(fp) THEN fp[i] ELSE "0"]
      up    == IF Len(fp) > scale /\ DigitVal(fp[scale + 1]) >= 5 THEN 1 ELSE 0
      mag   == DigitsVal(ip) * Pow10(scale) + DigitsVal(kept) + up
  IN  IF IsNegative(s) THEN 0 - mag ELSE mag

\* Number of digits before the decimal point, leading zeros not counted.
IntDigits(s) ==
  LET b   == NumberBody(s)
      dot == IF DotPos(b) = {} THEN Len(b) + 1 ELSE CHOOSE i \in DotPos(b) : TRUE
      nz  == {i \in 1..(dot - 1) : b[i] # "0"}
  IN  IF nz = {} THEN 0 ELSE dot - (CHOOSE i \in nz : \A j \in nz : i <= j)

\* TRY_CAST(x AS DECIMAL(width, scale)): NULL when x is NULL, is not a
\* number, or has more than width - scale digits before the point.  (A
\* value that rounding carries to 10^(width - scale) is out of range too;
\* the staging values of this model have at most six digits.)
TryCastDecimal(x, width, scale) ==
  IF IsNull(x) \/ ~IsNumber(Val(x)) THEN NULL
  ELSE IF IntDigits(Val(x)) > width - scale THEN NULL
  ELSE Some(ScaledValue(Val(x), scale))

\* TRY_CAST(x AS INTEGER): 32-bit; the fraction is rounded away.  (Ten-digit
\* values below 2^31 also fit; the staging values of this model are short.)
TryCastInteger(x) ==
  IF IsNull(x) \/ ~IsNumber(Val(x)) THEN NULL
  ELSE IF IntDigits(Val(x)) > 9 THEN NULL
  ELSE Some(ScaledValue(Val(x), 0))

IsLeap(y) == (y % 4 = 0 /\ y % 100 # 0) \/ y % 400 = 0

DaysInMonth(y, m) ==
  IF m = 2 THEN (IF IsLeap(y) THEN 29 ELSE 28)
  ELSE IF m \in {4, 6, 9, 11} THEN 30 ELSE 31

\* Day number of a calendar date, 1970-01-01 being day 0.
DaysFromCivil(y, m, d) ==
  LET yy  == IF m <= 2 THEN y - 1 ELSE y
      era == yy \div 400
      yoe == yy - era * 400
      mp  == (m + 9) % 12
      doy == (153 * mp + 2) \div 5 + d - 1
      doe == yoe * 365 + yoe \div 4 - yoe \div 100 + doy
  IN  era * 146097 + doe - 719468

\* TRY_CAST(x AS DATE) and, at day granularity, TRY_CAST(x AS TIMESTAMP),
\* for the ISO form YYYY-MM-DD.
TryCastDate(x) ==
  IF IsNull(x) THEN NULL
  ELSE LET t == TrimChars(Val(x))
       IN  IF /\ Len(t) = 10
              /\ t[5] = "-" /\ t[8] = "-"
              /\ \A i \in {1, 2, 3, 4, 6, 7, 9, 10} : IsDigit(t[i])
           THEN LET y == DigitsVal(SubSeq(t, 1, 4))
                    m == DigitsVal(SubSeq(t, 6, 7))
                    d == DigitsVal(SubSeq(t, 9, 10))
                IN  IF m \in 1..12 /\ d >= 1 /\ d <= DaysInMonth(y, m) /\ y >= 1
                    THEN Some(DaysFromCivil(y, m, d))
                    ELSE NULL
           ELSE NULL

----------------------------------------------------------------------------
(* Bounds of the staging contents *)

MaxCust == 2

MaxTxn == 2

MaxProfileTxn == 4

MaxSent == 2

MaxRuns == 2

MaxNullRateRows == 10

MaxDupRows == 5

MaxOrphanCust == 2

MaxOrphanTxn == 2

----------------------------------------------------------------------------
(* Staging values.  Each is a VARCHAR as ingestion stores it. *)

Str_C1 == <<"C","1">>

Str_c1 == <<"c","1">>

Str_C9 == <<"C","9">>

Str_C1_padded == <<" ","C","1">>

Str_T(i) == <<"T", Digits[i + 1]>>

Str_P1 == <<"P","1">>

Str_P2 == <<"P","2">>

Str_Bob == <<" ","B","o","b"," ">>

Str_al == <<"a","l">>

Str_MailA == <<"A","@","x",".","i","o"," ">>

Str_MailB == <<"b","@","x",".","i","o">>

Str_30 == <<"3","0">>

Str_150 == <<"1","5","0">>

Str_200 == <<"2","0","0">>

Str_Minus1 == <<"-","1">>

Str_abc == <<"a","b","c">>

Str_Day5 == <<"2","0","2","4","-","0","1","-","0","5">>

Str_Day6 == <<"2","0","2","4","-","0","1","-","0","6">>

Str_Day1990 == <<"1","9","9","0","-","0","1","-","0","1">>

Str_BadDay == <<"2","0","2","4","-","1","3","-","4","0">>

Str_50000 == <<"5","0","0","0","0">>

Str_49999_99 == <<"4","9","9","9","9",".","9","9">>

Str_12c50 == <<"1","2",",","5","0">>

Str_12p50 == <<"1","2",".","5","0">>

Str_Minus1000 == <<"-","1","0","0","0">>

Str_Minus999_99 == <<"-","9","9","9",".","9","9">>

Str_10 == <<"1","0">>

Str_match_tickets == <<"m","a","t","c","h","_","t","i","c","k","e","t","s">>

Str_SportsGear == <<" ","S","p","o","r","t","s","_","G","e","a","r">>

Str_food == <<"f","o","o","d">>

Str_sports == <<"s","p","o","r","t","s">>

Str_Unknown == <<"U","n","k","n","o","w","n">>

Str_shop == <<"s","h","o","p">>

Str_0p5 == <<"0",".","5">>

Str_5p0 == <<"5",".","0">>

Str_Minus3 == <<"-","3">>

\* The sequences over S of length at most n
SeqsUpTo(S, n) == UNION {[1..k -> S] : k \in 0..n}

\* pipeline.py numbers the rows of one file 0, 1, 2, ... in _row_id
WithRowIds(s) == [i \in DOMAIN s |-> s[i] @@ [_row_id |-> i - 1]]

\* _load_timestamp values: T1 < T2
LoadTimes == {1, 2}

\* name, email, age, signup_date of a customers.csv line
CustomerPayloads ==
  { [name |-> Some(Str_Bob), email |-> Some(Str_MailA), age |-> Some(Str_30),
     signup_date |-> Some(Str_Day5)],
    [name |-> NULL, email |-> Some(Str_MailB), age |-> NULL,
     signup_date |-> NULL],
    [name |-> Some(Str_al), email |-> NULL, age |-> Some(Str_abc),
     signup_date |-> Some(Str_BadDay)],
    [name |-> Some(Str_Bob), email |-> Some(Str_MailB), age |-> Some(Str_150),
     signup_date |-> Some(Str_abc)],
    [name |-> Some(Str_al), email |-> Some(Str_MailA), age |-> Some(Str_200),
     signup_date |-> Some(Str_Day6)],
    [name |-> Some(Str_al), email |-> Some(Str_MailB), age |-> Some(Str_Minus1),
     signup_date |-> Some(Str_Day5)] }

CustomerRows ==
  { p @@ [customer_id |-> Some(Str_C1), _load_timestamp |-> t] :
      p \in CustomerPayloads, t \in LoadTimes }
  \cup
  { [name |-> Some(Str_Bob), email |-> Some(Str_MailA), age |-> Some(Str_30),
     signup_date |-> Some(Str_Day5), customer_id |-> k, _load_timestamp |-> 1] :
      k \in {Some(Str_c1), NULL} }

\* customer_id, timestamp, amount, category, merchant of a transactions.csv line
TransactionPayloads ==
  { [customer_id |-> Some(Str_C1), timestamp |-> Some(Str_Day5),
     amount |-> Some(Str_49999_99), category |-> Some(Str_match_tickets),
     merchant |-> Some(Str_shop)],
    [customer_id |-> Some(Str_C1), timestamp |-> Some(Str_Day6),
     amount |-> Some(Str_50000), category |-> Some(Str_food),
     merchant |-> Some(Str_shop)],
    [customer_id |-> Some(Str_C1), timestamp |-> Some(Str_Day5),
     amount |-> Some(Str_12c50), category |-> Some(Str_food),
     merchant |-> NULL],
    [customer_id |-> Some(Str_C1), timestamp |-> Some(Str_BadDay),
     amount |-> Some(Str_12p50), category |-> Some(Str_SportsGear),
     merchant |-> NULL],
    [customer_id |-> Some(Str_C1), timestamp |-> NULL,
     amount |-> Some(Str_Minus1000), category |-> Some(Str_food),
     merchant |-> Some(Str_shop)],
    [customer_id |-> Some(Str_C1), timestamp |-> Some(Str_Day6),
     amount |-> Some(Str_Minus999_99), category |-> Some(Str_food),
     merchant |-> Some(Str_shop)],
    [customer_id |-> Some(Str_C1), timestamp |-> Some(Str_Day5),
     amount |-> Some(Str_abc), category |-> Some(Str_food),
     merchant |-> Some(Str_shop)],
    [customer_id |-> Some(Str_C1), timestamp |-> Some(Str_Day5),
     amount |-> NULL, category |-> Some(Str_food),
     merchant |-> Some(Str_shop)],
    [customer_id |-> Some(Str_C1), timestamp |-> Some(Str_Day5),
     amount |-> Some(Str_10), category |-> NULL,
     merchant |-> Some(Str_shop)],
    [customer_id |-> Some(Str_C9), timestamp |-> Some(Str_Day5),
     amount |-> Some(Str_10), category |-> Some(Str_food),
     merchant |-> Some(Str_shop)],
    [customer_id |-> Some(Str_c1), timestamp |-> Some(Str_Day6),
     amount |-> Some(Str_10), category |-> Some(Str_match_tickets),
     merchant |-> Some(Str_shop)],
    [customer_id |-> NULL, timestamp |-> Some(Str_Day5),
     amount |-> Some(Str_10), category |-> Some(Str_food),
     merchant |-> Some(Str_shop)] }

TransactionRows ==
  { p @@ [transaction_id |-> Some(Str_T(1))] : p \in TransactionPayloads }
  \cup
  { [transaction_id |-> k, customer_id |-> Some(Str_C1),
     timestamp |-> Some(Str_Day5), amount |-> Some(a),
     category |-> Some(Str_food), merchant |-> Some(Str_shop)] :
      k \in {Some(Str_T(2)), NULL}, a \in {Str_10, Str_50000} }

\* Well-formed transactions of the two customers, for the profile aggregates
ProfilePayloads ==
  { [customer_id |-> Some(Str_C1), timestamp |-> Some(x[1]),
     amount |-> Some(Str_12p50), category |-> Some(x[2]),
     merchant |-> Some(Str_shop)] :
      x \in { <<Str_Day5, Str_match_tickets>>, <<Str_Day6, Str_food>>,
              <<Str_Day5, Str_SportsGear>>, <<Str_Day1990, Str_food>> } }
  \cup
  { [customer_id |-> Some(Str_c1), timestamp |-> Some(Str_Day6),
     amount |-> Some(Str_Minus999_99), category |-> Some(Str_SportsGear),
     merchant |-> NULL] }

\* user, topic, sentiment_score, engagement, published_at of a sentiment post
SentimentPayloads ==
  { [user |-> Some(Str_Bob), topic |-> Some(Str_SportsGear),
     sentiment_score |-> Some(Str_0p5), engagement |-> Some(Str_10),
     published_at |-> Some(Str_Day5)],
    [user |-> NULL, topic |-> Some(Str_food),
     sentiment_score |-> Some(Str_5p0), engagement |-> Some(Str_Minus3),
     published_at |-> Some(Str_BadDay)],
    [user |-> Some(Str_al), topic |-> NULL,
     sentiment_score |-> Some(Str_abc), engagement |-> Some(Str_abc),
     published_at |-> NULL],
    [user |-> Some(Str_al), topic |-> Some(Str_food),
     sentiment_score |-> NULL, engagement |-> NULL,
     published_at |-> Some(Str_Day6)] }

SentimentRows ==
  { p @@ [id |-> Some(Str_P1), _load_timestamp |-> t] :
      p \in SentimentPayloads, t \in LoadTimes }
  \cup
  { [user |-> Some(Str_Bob), topic |-> Some(Str_food),
     sentiment_score |-> Some(Str_0p5), engagement |-> Some(Str_10),
     published_at |-> Some(Str_Day5), id |-> k, _load_timestamp |-> 1] :
      k \in {Some(Str_P2), NULL} }

\* A fixed sample of each staging table, used while another table varies
SampleCustomers ==
  WithRowIds(<<
    [customer_id |-> Some(Str_C1), name |-> Some(Str_Bob), email |-> Some(Str_MailA),
     age |-> Some(Str_30), signup_date |-> Some(Str_Day5), _load_timestamp |-> 1],
    [customer_id |-> Some(Str_c1), name |-> NULL, email |-> NULL,
     age |-> NULL, signup_date |-> NULL, _load_timestamp |-> 1] >>)

SampleTransactions ==
  WithRowIds(<<
    [transaction_id |-> Some(Str_T(1)), customer_id |-> Some(Str_C1),
     timestamp |-> Some(Str_Day5), amount |-> Some(Str_12p50),
     category |-> Some(Str_match_tickets), merchant |-> Some(Str_shop)],
    [transaction_id |-> Some(Str_T(2)), customer_id |-> Some(Str_C1),
     timestamp |-> Some(Str_Day6), amount |-> Some(Str_10),
     category |-> Some(Str_food), merchant |-> NULL] >>)

SampleSentiment ==
  WithRowIds(<<
    [id |-> Some(Str_P1), user |-> Some(Str_Bob), topic |-> Some(Str_food),
     sentiment_score |-> Some(Str_0p5), engagement |-> Some(Str_10),
     published_at |-> Some(Str_Day5), _load_timestamp |-> 1] >>)

\* n customers of which the first k have no email
NullRateCustomers(n, k) ==
  WithRowIds([i \in 1..n |->
    [customer_id |-> Some(Str_C1), name |-> Some(Str_Bob),
     email |-> IF i <= k THEN NULL ELSE Some(Str_MailA),
     age |-> Some(Str_30), signup_date |-> Some(Str_Day5), _load_timestamp |-> 1]])

\* Transactions that differ in their key only
DuplicateRows ==
  { [transaction_id |-> k, customer_id |-> Some(Str_C1),
     timestamp |-> Some(Str_Day5), amount |-> Some(Str_10),
     category |-> Some(Str_food), merchant |-> Some(Str_shop)] :
      k \in {Some(Str_T(1)), Some(Str_T(2)), NULL} }

\* Customers with and without a key
OrphanCustomerRows ==
  { [customer_id |-> k, name |-> Some(Str_Bob), email |-> Some(Str_MailA),
     age |-> Some(Str_30), signup_date |-> Some(Str_Day5), _load_timestamp |-> 1] :
      k \in {Some(Str_C1), NULL} }

\* Transactions of a known customer, of its key in another case or padded,
\* of an unknown customer and of none
OrphanPayloads ==
  { [customer_id |-> k, timestamp |-> Some(Str_Day5), amount |-> Some(Str_10),
     category |-> Some(Str_food), merchant |-> Some(Str_shop)] :
      k \in {Some(Str_C1), Some(Str_c1), Some(Str_C1_padded), Some(Str_C9), NULL} }

\* The day CURRENT_TIMESTAMP falls on when a step runs
ProcessingDays == {DaysFromCivil(2024, 1, 6), DaysFromCivil(2024, 1, 9)}

----------------------------------------------------------------------------
(* SELECT DISTINCT ON (key) * FROM rows WHERE key IS NOT NULL ORDER BY key, ord *)

\* The rows of the table at the positions I, in table order
RECURSIVE SubTable(_, _, _)
SubTable(rows, I, i) ==
  IF i > Len(rows) THEN <<>>
  ELSE (IF i \in I THEN <<rows[i]>> ELSE <<>>) \o SubTable(rows, I, i + 1)

\* Every result the statement can return: one row per key, a row whose ord
\* is least among the rows of its key.  Rows that tie on ord are equally
\* first, and the engine may return any of them.
DistinctOn(rows, Key(_), Ord(_)) ==
  LET live   == {i \in DOMAIN rows : ~IsNull(Key(rows[i]))}
      firsts == {i \in live : \A j \in live :
                   Key(rows[j]) = Key(rows[i]) => Ord(rows[i]) <= Ord(rows[j])}
  IN  { SubTable(rows, S, 1) :
          S \in {T \in SUBSET firsts :
                   \A i \in firsts :
                     Cardinality({j \in T : Key(rows[j]) = Key(rows[i])}) = 1} }

\* DISTINCT ON (_load_timestamp): the order column taken for the key
CustomerKeyOrderColumn(r) == Some(r._load_timestamp)

CustomerKey(r) == r.customer_id

\* ORDER BY customer_id, _load_timestamp DESC ("last wins")
CustomerOrderDesc(r) == 0 - r._load_timestamp

CustomerOrder(r) == r._load_timestamp

DedupCustomers(rows) == DistinctOn(rows, CustomerKey, CustomerOrder)

TransactionKey(r) == r.transaction_id

\* ORDER BY transaction_id, _row_id DESC (the latest physical row)
TransactionOrderDesc(r) == 0 - r._row_id

TransactionOrder(r) == r._row_id

DedupTransactions(rows) == DistinctOn(rows, TransactionKey, TransactionOrder)

SentimentKey(r) == r.id

SentimentOrder(r) == r._load_timestamp

DedupSentiment(rows) == DistinctOn(rows, SentimentKey, SentimentOrder)

----------------------------------------------------------------------------
(* Constraints of the target tables (schema.py) *)

\* A key column declared without PRIMARY KEY
PrimaryKeyUndeclared(keys) == TRUE

\* PRIMARY KEY: no NULL and no value twice, rows already stored included
PrimaryKeyOk(keys) ==
  /\ \A i \in DOMAIN keys : ~IsNull(keys[i])
  /\ \A i, j \in DOMAIN keys : i # j => keys[i] # keys[j]

Column(table, col) == [i \in DOMAIN table |-> table[i][col]]

\* CHECK (age >= 0 AND age <= 150): a NULL age passes
AgeCheckOk(age) == IsNull(age) \/ (Val(age) >= 0 /\ Val(age) <= 150)

DimCustomersOk(stored, new) ==
  /\ PrimaryKeyOk(Column(stored \o new, "customer_id"))
  /\ \A i \in DOMAIN new : ~IsNull(new[i].name) /\ AgeCheckOk(new[i].age)

CustomerIds(table) == {table[i].customer_id : i \in DOMAIN table}

FactTransactionsOk(stored, new, dim) ==
  /\ PrimaryKeyOk(Column(stored \o new, "transaction_id"))
  /\ \A i \in DOMAIN new :
       /\ ~IsNull(new[i].customer_id)
       /\ ~IsNull(new[i].transaction_date)
       /\ ~IsNull(new[i].amount_eur)
       /\ ~IsNull(new[i].category)
       /\ new[i].customer_id \in CustomerIds(dim)

FactSentimentOk(stored, new) ==
  PrimaryKeyOk(Column(stored \o new, "post_id"))

----------------------------------------------------------------------------
(* The step log of one DataTransformer (self.report["steps"]) *)

\* f"{table}: {row_count} rows"
StepRows(name, n) == [step |-> name, error |-> FALSE, row_count |-> n, reason |-> ""]

\* An error logged for the run as a whole, not for its step
StepErrorOfRun(name, why) ==
  [step |-> "transform_all", error |-> TRUE, row_count |-> 0, reason |-> why]

\* f"ERROR in {table}: {e}"
StepError(name, why) == [step |-> name, error |-> TRUE, row_count |-> 0, reason |-> why]

----------------------------------------------------------------------------
(* DataValidator (validation.py): the checks, as functions of the tables *)

\* The columns of the tables, as far as the rows here carry them
CustomerColumns ==
  {"_row_id", "customer_id", "name", "email", "age", "signup_date", "_load_timestamp"}

TransactionColumns ==
  {"_row_id", "transaction_id", "customer_id", "timestamp", "amount", "category",
   "merchant"}

SentimentColumns ==
  {"_row_id", "id", "user", "topic", "sentiment_score", "engagement", "published_at",
   "_load_timestamp"}

DimCustomerColumns == {"customer_id", "name", "email", "age", "signup_date"}

FactTransactionColumns ==
  {"transaction_id", "customer_id", "transaction_date", "amount_eur", "category",
   "merchant", "_source_row_id"}

CustomerProfileColumns ==
  {"customer_id", "txn_count", "total_spend", "avg_txn", "last_txn_date",
   "match_ticket_count", "sports_affinity_ratio", "avg_days_between_txns"}

\* col.startswith("_"): the columns the pipeline adds
IsInternal(col) == col \in {"_row_id", "_load_timestamp", "_source_row_id"}

\* NULL_RATE_WARNING = 0.3, in tenths
NullRateWarningTenths == 3

\* The columns filled by COUNT(...), held as plain numbers: never NULL
CountColumns == {"txn_count", "match_ticket_count"}

\* SELECT COUNT(*) FROM table WHERE col IS NULL
NullCount(rows, col) ==
  IF col \in CountColumns THEN 0
  ELSE Cardinality({i \in DOMAIN rows : IsNull(rows[i][col])})

\* null_pct >= NULL_RATE_WARNING
HighNullRateInclusive(null_count, row_count) ==
  IF row_count > 0 THEN 10 * null_count >= NullRateWarningTenths * row_count
  ELSE FALSE

\* null_pct = null_count / row_count if row_count > 0 else 0;
\* null_pct > NULL_RATE_WARNING.  The float quotient of two small integers
\* compares with 0.3 as the exact fraction does.
HighNullRate(null_count, row_count) ==
  IF row_count > 0 THEN 10 * null_count > NullRateWarningTenths * row_count
  ELSE FALSE

\* _validate_table: a missing table makes the first query fail
ValidateTable(exists, rows, columns) ==
  IF ~exists THEN [error |-> TRUE]
  ELSE [error |-> FALSE,
        row_count |-> Len(rows),
        columns |-> columns,
        high_null_columns |->
          [c \in {col \in columns :
                    /\ ~IsInternal(col)
                    /\ HighNullRate(NullCount(rows, col), Len(rows))}
             |-> NullCount(rows, c)]]

\* COUNT(*) of the group of key value k
Occurrences(rows, col, k) == Cardinality({i \in DOMAIN rows : rows[i][col] = k})

\* WHERE key IS NOT NULL GROUP BY key, without the HAVING clause
EveryKey(rows, col) ==
  {rows[i][col] : i \in {j \in DOMAIN rows : ~IsNull(rows[j][col])}}

\* WHERE key IS NOT NULL GROUP BY key HAVING COUNT(*) > 1
DuplicatedKeys(rows, col) ==
  {k \in {rows[i][col] : i \in {j \in DOMAIN rows : ~IsNull(rows[j][col])}} :
     Occurrences(rows, col, k) > 1}

\* ORDER BY cnt DESC: groups of equal count come in any order
DuplicateListings(rows, col) ==
  LET keys == DuplicatedKeys(rows, col)
      n    == Cardinality(keys)
  IN  { [i \in 1..n |-> [key |-> Val(s[i]),
                         occurrences |-> Occurrences(rows, col, s[i])]] :
          s \in {t \in [1..n -> keys] :
                   /\ \A i, j \in 1..n : i # j => t[i] # t[j]
                   /\ \A i, j \in 1..n :
                        i < j => Occurrences(rows, col, t[i])
                                   >= Occurrences(rows, col, t[j])} }

\* _find_duplicates: the results it can return
FindDuplicates(exists, rows, col) ==
  IF ~exists THEN {[error |-> TRUE]}
  ELSE IF DuplicatedKeys(rows, col) = {}
  THEN {[error |-> FALSE, found |-> FALSE, count |-> 0]}
  ELSE {[error |-> FALSE, found |-> TRUE, count |-> Len(d), duplicates |-> d] :
          d \in DuplicateListings(rows, col)}

\* x NOT IN (values) is true: x is not NULL, equals none of the values, and
\* none of the values is NULL (a NULL among them leaves the test unknown)
NotIn(x, values) ==
  /\ ~IsNull(x)
  /\ x \notin values
  /\ NULL \notin values

\* _find_orphan_keys
FindOrphanKeys(exists, transactions, customers) ==
  IF ~exists THEN [error |-> TRUE]
  ELSE LET orphans ==
             Cardinality({i \in DOMAIN transactions :
               /\ ~IsNull(transactions[i].customer_id)
               /\ NotIn(transactions[i].customer_id, CustomerIds(customers))})
       IN  [error |-> FALSE, found |-> orphans > 0, count |-> orphans]

\* SELECT COUNT(*) FROM fact_transactions: every row an orphan
EveryFactRow(fact, dim) == Len(fact)

\* SELECT COUNT(*) FROM fact_transactions t
\* WHERE customer_id NOT IN (SELECT customer_id FROM dim_customers)
ForeignKeyOrphans(fact, dim) ==
  Cardinality({i \in DOMAIN fact : NotIn(fact[i].customer_id, CustomerIds(dim))})

\* _check_foreign_keys
CheckForeignKeys(exists, fact, dim) ==
  IF ~exists THEN [error |-> TRUE]
  ELSE [error |-> FALSE,
        valid |-> ForeignKeyOrphans(fact, dim) = 0,
        orphan_count |-> ForeignKeyOrphans(fact, dim)]

\* COUNT(*) == COUNT(DISTINCT customer_id) over dim_customers
CustomerIdUnique(dim) ==
  Len(dim) = Cardinality({k \in CustomerIds(dim) : ~IsNull(k)})

\* No validator is open
NoReport == [pass |-> "none", raised |-> FALSE]

----------------------------------------------------------------------------
(* transform_all *)

Init_common ==
  /\ dim_customers = <<>>
  /\ fact_transactions = <<>>
  /\ fact_sentiment = <<>>
  /\ customer_profile = <<>>
  /\ tables_exist = FALSE
  /\ steps = <<>>
  /\ pc = "idle"
  /\ runs = 0
  /\ validation = NoReport
  /\ validator_report = {}

\* The customers file varies
Init_customers ==
  /\ raw_customers \in {WithRowIds(s) : s \in SeqsUpTo(CustomerRows, MaxCust)}
  /\ raw_transactions = SampleTransactions
  /\ raw_sentiment = SampleSentiment

\* The transactions file varies
Init_transactions ==
  /\ raw_customers = SampleCustomers
  /\ raw_transactions \in {WithRowIds(s) : s \in SeqsUpTo(TransactionRows, MaxTxn)}
  /\ raw_sentiment = SampleSentiment

\* Well-formed transactions with distinct ids vary
Init_profile ==
  /\ raw_customers = SampleCustomers
  /\ raw_transactions \in
       { WithRowIds([i \in DOMAIN s |-> s[i] @@ [transaction_id |-> Some(Str_T(i))]]) :
           s \in SeqsUpTo(ProfilePayloads, MaxProfileTxn) }
  /\ raw_sentiment = SampleSentiment

\* The sentiment file varies
Init_sentiment ==
  /\ raw_customers = SampleCustomers
  /\ raw_transactions = SampleTransactions
  /\ raw_sentiment \in {WithRowIds(s) : s \in SeqsUpTo(SentimentRows, MaxSent)}

\* The share of customers without email varies; the other files are empty
Init_null_rates ==
  /\ raw_customers \in
       {NullRateCustomers(n, k) : n \in 0..MaxNullRateRows, k \in 0..MaxNullRateRows}
  /\ raw_transactions = <<>>
  /\ raw_sentiment = <<>>

\* Repeated transaction ids vary
Init_duplicates ==
  /\ raw_customers = SampleCustomers
  /\ raw_transactions \in {WithRowIds(s) : s \in SeqsUpTo(DuplicateRows, MaxDupRows)}
  /\ raw_sentiment = SampleSentiment

\* The customer keys on both sides of the foreign key vary
Init_orphans ==
  /\ raw_customers \in
       {WithRowIds(s) : s \in SeqsUpTo(OrphanCustomerRows, MaxOrphanCust)}
  /\ raw_transactions \in
       { WithRowIds([i \in DOMAIN s |-> s[i] @@ [transaction_id |-> Some(Str_T(i))]]) :
           s \in SeqsUpTo(OrphanPayloads, MaxOrphanTxn) }
  /\ raw_sentiment = SampleSentiment

Init ==
  /\ Init_common
  /\ \/ Init_customers \/ Init_transactions \/ Init_profile \/ Init_sentiment
     \/ Init_null_rates \/ Init_duplicates \/ Init_orphans

Staging == <<raw_customers, raw_transactions, raw_sentiment>>

\* DataTransformer(): a new step log; transform_all is then entered.  The
\* validator of the stage before has been closed.
DataTransformer_init ==
  /\ pc \in {"idle", "done"}
  /\ runs < MaxRuns
  /\ runs' = runs + 1
  /\ steps' = <<>>
  /\ pc' = "create_tables"
  /\ validation' = NoReport
  /\ validator_report' = {}
  /\ UNCHANGED <<Staging, dim_customers, fact_transactions, fact_sentiment,
                 customer_profile, tables_exist>>

\* CREATE OR REPLACE TABLE for every table of the schema, staging included
create_tables_replacing_all ==
  /\ pc = "create_tables"
  /\ tables_exist' = TRUE
  /\ steps' = Append(steps, StepRows("Tables created", 0))
  /\ pc' = "load_dim_customers"
  /\ raw_customers' = <<>> /\ raw_transactions' = <<>> /\ raw_sentiment' = <<>>
  /\ dim_customers' = <<>> /\ fact_transactions' = <<>>
  /\ fact_sentiment' = <<>> /\ customer_profile' = <<>>
  /\ UNCHANGED <<runs, validation, validator_report>>

\* create_tables followed at once by the transaction load, the customer
\* load left for later
create_tables_then_transactions ==
  /\ pc = "create_tables"
  /\ tables_exist' = TRUE
  /\ steps' = Append(steps, StepRows("Tables created", 0))
  /\ pc' = "load_fact_transactions"
  /\ UNCHANGED <<Staging, dim_customers, fact_transactions, fact_sentiment,
                 customer_profile, runs, validation, validator_report>>

\* CREATE TABLE IF NOT EXISTS for the four target tables
create_tables ==
  /\ pc = "create_tables"
  /\ tables_exist' = TRUE
  /\ steps' = Append(steps, StepRows("Tables created", 0))
  /\ pc' = "load_dim_customers"
  /\ UNCHANGED <<Staging, dim_customers, fact_transactions, fact_sentiment,
                 customer_profile, runs, validation, validator_report>>

\* The SELECT list with COALESCE(name, 'Unknown') as name: LOWER(TRIM(...))
\* left out
CleanCustomerNameAsIs(r) ==
  [customer_id |-> r.customer_id,
   name        |-> COALESCE(r.name, Some(Str_Unknown)),
   email       |-> LOWER(TRIM(r.email)),
   age         |-> TryCastInteger(r.age),
   signup_date |-> TryCastDate(r.signup_date)]

\* The SELECT list of load_dim_customers for one deduplicated row
CleanCustomer(r) ==
  [customer_id |-> r.customer_id,
   name        |-> LOWER(TRIM(COALESCE(r.name, Some(Str_Unknown)))),
   email       |-> LOWER(TRIM(r.email)),
   age         |-> TryCastInteger(r.age),
   signup_date |-> TryCastDate(r.signup_date)]

RECURSIVE CleanCustomers(_)
CleanCustomers(deduped) ==
  IF deduped = <<>> THEN <<>>
  ELSE <<CleanCustomer(Head(deduped))>> \o CleanCustomers(Tail(deduped))

\* INSERT INTO dim_customers ...: all rows or, on a constraint error, none
load_dim_customers ==
  /\ pc = "load_dim_customers"
  /\ \E deduped \in DedupCustomers(raw_customers) :
     \E new \in {CleanCustomers(deduped)} :
           IF tables_exist /\ DimCustomersOk(dim_customers, new)
           THEN /\ dim_customers' = dim_customers \o new
                /\ steps' = Append(steps, StepRows("dim_customers", Len(dim_customers')))
           ELSE /\ dim_customers' = dim_customers
                /\ steps' = Append(steps, StepError("dim_customers", "Constraint Error"))
  /\ pc' = "load_fact_transactions"
  /\ UNCHANGED <<Staging, fact_transactions, fact_sentiment, customer_profile,
                 tables_exist, runs, validation, validator_report>>

\* Bounds of the amount filter, in EUR
MinAmount == -1000

MaxAmount == 50000

\* TRY_CAST(amount AS DECIMAL(10, 2)) of the WHERE clause: the raw text
FilterAmount(r) == TryCastDecimal(r.amount, 10, 2)

\* ... >= -1000 AND ... <= 50000: the bounds taken as inclusive
AmountInRangeInclusive(a) == Val(a) >= MinAmount * 100 /\ Val(a) <= MaxAmount * 100

\* ... > -1000 AND ... < 50000, on cents
AmountInRange(a) == Val(a) > MinAmount * 100 /\ Val(a) < MaxAmount * 100

\* The WHERE clause without customer_id IN (SELECT customer_id FROM
\* dim_customers): the amount conditions alone
TransactionFilterAmountOnly(r, dim) ==
  /\ ~IsNull(FilterAmount(r))
  /\ AmountInRange(FilterAmount(r))

\* The WHERE clause of load_fact_transactions
TransactionFilter(r, dim) ==
  /\ ~IsNull(r.customer_id)
  /\ r.customer_id \in CustomerIds(dim)
  /\ ~IsNull(FilterAmount(r))
  /\ AmountInRange(FilterAmount(r))

\* The SELECT list of load_fact_transactions for one deduplicated row
CleanTransaction(r, now) ==
  [transaction_id   |-> r.transaction_id,
   customer_id      |-> r.customer_id,
   transaction_date |-> COALESCE(TryCastDate(r.timestamp), Some(now)),
   amount_eur       |-> TryCastDecimal(REPLACE(r.amount, ",", "."), 10, 2),
   category         |-> LOWER(TRIM(r.category)),
   merchant         |-> r.merchant,
   _source_row_id   |-> Some(r._row_id)]

RECURSIVE CleanTransactions(_, _, _)
CleanTransactions(deduped, dim, now) ==
  IF deduped = <<>> THEN <<>>
  ELSE (IF TransactionFilter(Head(deduped), dim)
        THEN <<CleanTransaction(Head(deduped), now)>> ELSE <<>>)
       \o CleanTransactions(Tail(deduped), dim, now)

\* The load with the WHERE clause moved into the deduped CTE: the filter
\* applied before DISTINCT ON
load_fact_transactions_filter_first ==
  /\ pc = "load_fact_transactions"
  /\ \E deduped \in DedupTransactions(
          SelectSeq(raw_transactions,
                    LAMBDA r : TransactionFilter(r, dim_customers))),
        now \in ProcessingDays :
     \E new \in {CleanTransactions(deduped, dim_customers, now)} :
           IF tables_exist /\ FactTransactionsOk(fact_transactions, new, dim_customers)
           THEN /\ fact_transactions' = fact_transactions \o new
                /\ steps' = Append(steps, StepRows("fact_transactions",
                                                   Len(fact_transactions')))
           ELSE /\ fact_transactions' = fact_transactions
                /\ steps' = Append(steps, StepError("fact_transactions",
                                                    "Constraint Error"))
  /\ pc' = "load_fact_sentiment"
  /\ UNCHANGED <<Staging, dim_customers, fact_sentiment, customer_profile,
                 tables_exist, runs, validation, validator_report>>

\* INSERT INTO fact_transactions ...: all rows or, on a constraint error, none
load_fact_transactions ==
  /\ pc = "load_fact_transactions"
  /\ \E deduped \in DedupTransactions(raw_transactions), now \in ProcessingDays :
     \E new \in {CleanTransactions(deduped, dim_customers, now)} :
           IF tables_exist /\ FactTransactionsOk(fact_transactions, new, dim_customers)
           THEN /\ fact_transactions' = fact_transactions \o new
                /\ steps' = Append(steps, StepRows("fact_transactions",
                                                   Len(fact_transactions')))
           ELSE /\ fact_transactions' = fact_transactions
                /\ steps' = Append(steps, StepError("fact_transactions",
                                                    "Constraint Error"))
  /\ pc' = "load_fact_sentiment"
  /\ UNCHANGED <<Staging, dim_customers, fact_sentiment, customer_profile,
                 tables_exist, runs, validation, validator_report>>

\* The SELECT list of load_fact_sentiment for one deduplicated row
CleanSentiment(r) ==
  [post_id         |-> r.id,
   user_name       |-> LOWER(TRIM(r.user)),
   topic           |-> LOWER(TRIM(r.topic)),
   sentiment_score |-> TryCastDecimal(r.sentiment_score, 3, 2),
   engagement      |-> TryCastInteger(r.engagement),
   published_at    |-> TryCastDate(r.published_at),
   _source_row_id  |-> Some(r._row_id)]

RECURSIVE CleanSentiments(_)
CleanSentiments(deduped) ==
  IF deduped = <<>> THEN <<>>
  ELSE (IF ~IsNull(Head(deduped).id)
        THEN <<CleanSentiment(Head(deduped))>> ELSE <<>>)
       \o CleanSentiments(Tail(deduped))

\* INSERT INTO fact_sentiment ...: all rows or, on a constraint error, none
load_fact_sentiment ==
  /\ pc = "load_fact_sentiment"
  /\ \E deduped \in DedupSentiment(raw_sentiment) :
     \E new \in {CleanSentiments(deduped)} :
           IF tables_exist /\ FactSentimentOk(fact_sentiment, new)
           THEN /\ fact_sentiment' = fact_sentiment \o new
                /\ steps' = Append(steps, StepRows("fact_sentiment",
                                                   Len(fact_sentiment')))
           ELSE /\ fact_sentiment' = fact_sentiment
                /\ steps' = Append(steps, StepError("fact_sentiment",
                                                    "Constraint Error"))
  /\ pc' = "load_customer_profile"
  /\ UNCHANGED <<Staging, dim_customers, fact_transactions, customer_profile,
                 tables_exist, runs, validation, validator_report>>

----------------------------------------------------------------------------
(* load_customer_profile *)

\* NULLIF(n, 0)
NULLIF0(n) == IF n = 0 THEN NULL ELSE Some(n)

\* num / den rounded half away from zero, den > 0
RoundHalfAway(num, den) ==
  IF num >= 0 THEN (2 * num + den) \div (2 * den)
  ELSE 0 - ((2 * (0 - num) + den) \div (2 * den))

\* ROUND(a / b, scale) as an integer number of 10^-scale units; NULL when an
\* operand is NULL.  A zero divisor is the statement's division error (see
\* DivisionError), never a value.
RoundedQuotient(a, b, scale) ==
  IF IsNull(a) \/ IsNull(b) \/ Val(b) = 0 THEN NULL
  ELSE IF Val(b) > 0 THEN Some(RoundHalfAway(Val(a) * Pow10(scale), Val(b)))
  ELSE Some(0 - RoundHalfAway(Val(a) * Pow10(scale), 0 - Val(b)))

\* ... / NULLIF(COUNT(DISTINCT t.transaction_id), 0)
RatioDivisor(txn_count) == NULLIF0(txn_count)

\* ... / (COUNT(DISTINCT t.transaction_id) - 1): the NULLIF guard left out
IntervalDivisorUnguarded(txn_count) == Some(txn_count - 1)

\* ... / NULLIF(COUNT(DISTINCT t.transaction_id) - 1, 0)
IntervalDivisor(txn_count) == NULLIF0(txn_count - 1)

\* A division whose divisor is the number 0
DivisionError(b) == ~IsNull(b) /\ Val(b) = 0

\* The value fits DECIMAL(width, _), given in its scaled integer form.
\* (Ten-digit columns hold every value this model can build.)
FitsDecimal(v, width) ==
  \/ IsNull(v)
  \/ width > 9
  \/ (Val(v) < Pow10(width) /\ Val(v) > 0 - Pow10(width))

RECURSIVE Distinct(_)
Distinct(ks) ==
  IF ks = <<>> THEN <<>>
  ELSE LET front == Distinct(SubSeq(ks, 1, Len(ks) - 1))
           last  == ks[Len(ks)]
       IN  IF \E i \in DOMAIN front : front[i] = last THEN front
           ELSE Append(front, last)

\* FROM dim_customers c JOIN fact_transactions t: an inner join, which
\* keeps only the customers that have a transaction
InnerJoinedCustomers(dim, fact) ==
  SelectSeq(Distinct(Column(dim, "customer_id")),
            LAMBDA c : \E t \in DOMAIN fact : fact[t].customer_id = c)

\* FROM dim_customers c LEFT JOIN fact_transactions t ... GROUP BY
\* c.customer_id: the groups, every customer of the dimension
JoinedCustomers(dim, fact) == Distinct(Column(dim, "customer_id"))

\* The joined (c, t) pairs of one group; empty when the customer has no
\* transaction (the LEFT JOIN then yields one all-NULL t)
JoinPairs(c, dim, fact) ==
  {p \in (DOMAIN dim) \X (DOMAIN fact) :
     dim[p[1]].customer_id = c /\ fact[p[2]].customer_id = c}

RECURSIVE SumAmounts(_, _)
SumAmounts(pairs, fact) ==
  IF pairs = {} THEN 0
  ELSE LET p == CHOOSE x \in pairs : TRUE
       IN  Val(fact[p[2]].amount_eur) + SumAmounts(pairs \ {p}, fact)

MaxOf(S) == CHOOSE x \in S : \A y \in S : x >= y

MinOf(S) == CHOOSE x \in S : \A y \in S : x <= y

\* category = 'match_tickets': the LIKE '%sports%' alternative left out
IsTicketCategory(cat) ==
  ~IsNull(cat) /\ Val(cat) = Str_match_tickets

\* category LIKE '%sports%' OR category = 'match_tickets'
IsSportsCategory(cat) ==
  ~IsNull(cat) /\ (Contains(Val(cat), Str_sports) \/ Val(cat) = Str_match_tickets)

\* The SELECT list of load_customer_profile for the group of customer c
ProfileRow(c, dim, fact) ==
  LET pairs  == JoinPairs(c, dim, fact)
      txns   == {p[2] : p \in pairs}
      ids    == {fact[t].transaction_id : t \in txns}
      n      == Cardinality(ids)
      days   == {Val(fact[t].transaction_date) : t \in txns}
      total  == IF pairs = {} THEN NULL ELSE Some(SumAmounts(pairs, fact))
      ticket == {fact[t].transaction_id :
                   t \in {u \in txns : fact[u].category = Some(Str_match_tickets)}}
      sports == {fact[t].transaction_id :
                   t \in {u \in txns : IsSportsCategory(fact[u].category)}}
      span   == IF days = {} THEN NULL ELSE Some(MaxOf(days) - MinOf(days))
  IN  [customer_id           |-> c,
       txn_count             |-> n,
       total_spend           |-> total,
       avg_txn               |-> RoundedQuotient(total, NULLIF0(Cardinality(pairs)), 0),
       last_txn_date         |-> IF days = {} THEN NULL ELSE Some(MaxOf(days)),
       match_ticket_count    |-> Cardinality(ticket),
       sports_affinity_ratio |-> RoundedQuotient(Some(Cardinality(sports)),
                                                 RatioDivisor(n), 2),
       avg_days_between_txns |-> RoundedQuotient(span, IntervalDivisor(n), 1)]

ProfileRows(dim, fact) ==
  LET cs == JoinedCustomers(dim, fact)
  IN  [i \in DOMAIN cs |-> ProfileRow(cs[i], dim, fact)]

\* Some group divides by the number 0
ProfileDivisionError(dim, fact) ==
  \E c \in CustomerIds(dim) :
    LET n == Cardinality({fact[p[2]].transaction_id : p \in JoinPairs(c, dim, fact)})
    IN  DivisionError(RatioDivisor(n)) \/ DivisionError(IntervalDivisor(n))

\* The casts of the INSERT to the column types of customer_profile
ProfileFits(new) ==
  \A i \in DOMAIN new :
    /\ FitsDecimal(new[i].total_spend, 10)
    /\ FitsDecimal(new[i].avg_txn, 10)
    /\ FitsDecimal(new[i].sports_affinity_ratio, 3)
    /\ FitsDecimal(new[i].avg_days_between_txns, 5)

CustomerProfileOk(stored, new) ==
  PrimaryKeyOk(Column(stored \o new, "customer_id"))

\* INSERT INTO customer_profile ...: all rows or, on an error, none
load_customer_profile ==
  /\ pc = "load_customer_profile"
  /\ \E new \in {ProfileRows(dim_customers, fact_transactions)} :
         IF ~tables_exist
         THEN /\ customer_profile' = customer_profile
              /\ steps' = Append(steps, StepError("customer_profile", "Catalog Error"))
         ELSE IF ProfileDivisionError(dim_customers, fact_transactions)
         THEN /\ customer_profile' = customer_profile
              /\ steps' = Append(steps, StepError("customer_profile",
                                                  "Division by zero"))
         ELSE IF ~ProfileFits(new)
         THEN /\ customer_profile' = customer_profile
              /\ steps' = Append(steps, StepError("customer_profile",
                                                  "Conversion Error"))
         ELSE IF ~CustomerProfileOk(customer_profile, new)
         THEN /\ customer_profile' = customer_profile
              /\ steps' = Append(steps, StepError("customer_profile",
                                                  "Constraint Error"))
         ELSE /\ customer_profile' = customer_profile \o new
              /\ steps' = Append(steps, StepRows("customer_profile",
                                                 Len(customer_profile')))
  /\ pc' = "done"
  /\ UNCHANGED <<Staging, dim_customers, fact_transactions, fact_sentiment,
                 tables_exist, runs, validation, validator_report>>

----------------------------------------------------------------------------
(* DataValidator: the two passes.  A validator is opened while no
   transformer runs (main.py, and validation.py run by itself). *)

Targets == <<dim_customers, fact_transactions, fact_sentiment, customer_profile>>

\* validate_raw_data; the staging tables exist once ingestion has run.
\* self.report["raw_data"] is set.
validate_raw_data ==
  /\ pc \in {"idle", "done"}
  /\ \E dc \in FindDuplicates(TRUE, raw_customers, "customer_id"),
        dt \in FindDuplicates(TRUE, raw_transactions, "transaction_id"),
        ds \in FindDuplicates(TRUE, raw_sentiment, "id") :
       validation' =
         [pass |-> "raw", raised |-> FALSE,
          customers |->
            [table |-> ValidateTable(TRUE, raw_customers, CustomerColumns),
             duplicates |-> dc],
          transactions |->
            [table |-> ValidateTable(TRUE, raw_transactions, TransactionColumns),
             duplicates |-> dt,
             orphan_keys |-> FindOrphanKeys(TRUE, raw_transactions, raw_customers)],
          sentiment |->
            [table |-> ValidateTable(TRUE, raw_sentiment, SentimentColumns),
             duplicates |-> ds]]
  /\ validator_report' = validator_report \cup {"raw_data"}
  /\ UNCHANGED <<Staging, Targets, tables_exist, steps, pc, runs>>

\* validate_transformed_data; the uniqueness queries stand outside any try,
\* so a missing dim_customers makes the call raise instead of returning.
\* self.report["transformed_data"] is set when the call returns.
validate_transformed_data ==
  /\ pc \in {"idle", "done"}
  /\ validation' =
       IF ~tables_exist
       THEN [pass |-> "transformed", raised |-> TRUE]
       ELSE [pass |-> "transformed", raised |-> FALSE,
             dim_customers |->
               [table |-> ValidateTable(tables_exist, dim_customers,
                                        DimCustomerColumns),
                customer_id_unique |-> CustomerIdUnique(dim_customers)],
             fact_transactions |->
               [table |-> ValidateTable(tables_exist, fact_transactions,
                                        FactTransactionColumns),
                referential_integrity |->
                  CheckForeignKeys(tables_exist, fact_transactions, dim_customers)],
             customer_profile |->
               [table |-> ValidateTable(tables_exist, customer_profile,
                                        CustomerProfileColumns)]]
  /\ validator_report' =
       IF ~tables_exist THEN validator_report
       ELSE validator_report \cup {"transformed_data"}
  /\ UNCHANGED <<Staging, Targets, tables_exist, steps, pc, runs>>

\* DataValidator(): a new validator with an empty report
DataValidator_init ==
  /\ pc \in {"idle", "done"}
  /\ validation' = NoReport
  /\ validator_report' = {}
  /\ UNCHANGED <<Staging, Targets, tables_exist, steps, pc, runs>>

\* generate_report: self.report, as it stands, is dumped to
\* validation_report.json
generate_report ==
  /\ pc \in {"idle", "done"}
  /\ validation' = [pass |-> "report", raised |-> FALSE, halves |-> validator_report]
  /\ UNCHANGED <<Staging, Targets, tables_exist, steps, pc, runs, validator_report>>

Next ==
  \/ DataValidator_init
  \/ validate_raw_data
  \/ validate_transformed_data
  \/ generate_report
  \/ DataTransformer_init
  \/ create_tables
  \/ load_dim_customers
  \/ load_fact_transactions
  \/ load_fact_sentiment
  \/ load_customer_profile

Spec == Init /\ [][Next]_vars

----------------------------------------------------------------------------
(* Properties *)

LastStep == steps[Len(steps)]

Abs(x) == IF x < 0 THEN 0 - x ELSE x

\* The first run has just executed the named step
JustRan(next_pc) == pc = next_pc /\ runs = 1

\* C1: in every reachable state, failed steps and re-runs included, no two
\* dim_customers rows share a customer_id, no customer_id is NULL, and every
\* non-NULL age lies in [0, 150].
C1_DimCustomersKeyAndAge ==
  /\ \A i \in DOMAIN dim_customers :
       /\ ~IsNull(dim_customers[i].customer_id)
       /\ \/ IsNull(dim_customers[i].age)
          \/ (Val(dim_customers[i].age) >= 0 /\ Val(dim_customers[i].age) <= 150)
  /\ \A i, j \in DOMAIN dim_customers :
       i # j => dim_customers[i].customer_id # dim_customers[j].customer_id

\* A second run whose customer load failed against two loaded customers,
\* one of them with an age
C1_Witness ==
  /\ runs = 2 /\ pc = "load_fact_transactions"
  /\ LastStep.error
  /\ Len(dim_customers) = 2
  /\ \E i \in DOMAIN dim_customers : ~IsNull(dim_customers[i].age)

\* C2: in every reachable state every fact_transactions row has amount_eur
\* strictly between -1000 and 50000 and a customer_id that is the
\* customer_id of exactly one dim_customers row.
C2_FactAmountAndForeignKey ==
  \A i \in DOMAIN fact_transactions :
    /\ ~IsNull(fact_transactions[i].amount_eur)
    /\ Val(fact_transactions[i].amount_eur) > -1000 * 100
    /\ Val(fact_transactions[i].amount_eur) < 50000 * 100
    /\ Cardinality({j \in DOMAIN dim_customers :
         dim_customers[j].customer_id = fact_transactions[i].customer_id}) = 1

\* A loaded transaction of 49999.99 EUR, the largest amount below the bound
C2_Witness ==
  \E i \in DOMAIN fact_transactions :
    fact_transactions[i].amount_eur = Some(4999999)

\* C3: every dim_customers row is the cleaned form of a staging row of its
\* customer_id whose _load_timestamp is least among the staging rows of
\* that customer_id (with T1 < T2, the T1 row's email is the one kept).
C3_EarliestLoadedCustomer ==
  \A d \in DOMAIN dim_customers :
    \E i \in DOMAIN raw_customers :
      /\ raw_customers[i].customer_id = dim_customers[d].customer_id
      /\ CleanCustomer(raw_customers[i]) = dim_customers[d]
      /\ \A j \in DOMAIN raw_customers :
           raw_customers[j].customer_id = raw_customers[i].customer_id
             => raw_customers[i]._load_timestamp <= raw_customers[j]._load_timestamp

\* A loaded customer with two staging rows, loaded at T1 < T2 with
\* different emails
C3_Witness ==
  \E d \in DOMAIN dim_customers, i, j \in DOMAIN raw_customers :
    /\ raw_customers[i].customer_id = dim_customers[d].customer_id
    /\ raw_customers[j].customer_id = dim_customers[d].customer_id
    /\ raw_customers[i]._load_timestamp < raw_customers[j]._load_timestamp
    /\ LOWER(TRIM(raw_customers[i].email)) # LOWER(TRIM(raw_customers[j].email))
    /\ dim_customers[d].email = LOWER(TRIM(raw_customers[i].email))

\* C4: every fact_transactions row carries the values and the _row_id of
\* the staging row that has the smallest _row_id among the staging rows of
\* its transaction_id.
C4_EarliestIngestedTransaction ==
  \A f \in DOMAIN fact_transactions :
    \E i \in DOMAIN raw_transactions :
      /\ raw_transactions[i].transaction_id = fact_transactions[f].transaction_id
      /\ \A j \in DOMAIN raw_transactions :
           raw_transactions[j].transaction_id = raw_transactions[i].transaction_id
             => raw_transactions[i]._row_id <= raw_transactions[j]._row_id
      /\ fact_transactions[f]._source_row_id = Some(raw_transactions[i]._row_id)
      /\ \E now \in ProcessingDays :
           fact_transactions[f] = CleanTransaction(raw_transactions[i], now)

\* A loaded transaction whose id has a second, later staging row with
\* other values
C4_Witness ==
  \E f \in DOMAIN fact_transactions, i, j \in DOMAIN raw_transactions :
    /\ raw_transactions[i].transaction_id = fact_transactions[f].transaction_id
    /\ raw_transactions[j].transaction_id = fact_transactions[f].transaction_id
    /\ raw_transactions[i]._row_id < raw_transactions[j]._row_id
    /\ raw_transactions[i].amount # raw_transactions[j].amount
    /\ fact_transactions[f]._source_row_id = Some(raw_transactions[i]._row_id)

\* The staging row that represents its transaction_id: the one with the
\* smallest _row_id
IsRepresentative(i) ==
  /\ ~IsNull(raw_transactions[i].transaction_id)
  /\ \A j \in DOMAIN raw_transactions :
       raw_transactions[j].transaction_id = raw_transactions[i].transaction_id
         => raw_transactions[i]._row_id <= raw_transactions[j]._row_id

InFact(i) ==
  \E f \in DOMAIN fact_transactions :
    fact_transactions[f].transaction_id = raw_transactions[i].transaction_id

\* The customer_id of the staging row is that of a loaded customer
Resolves(i) ==
  /\ ~IsNull(raw_transactions[i].customer_id)
  /\ \E d \in DOMAIN dim_customers :
       dim_customers[d].customer_id = raw_transactions[i].customer_id

\* C5: a transaction representative is in fact_transactions if and only if
\* its customer_id is non-NULL and loaded, its amount parses and the amount
\* is strictly inside (-1000, 50000); no timestamp, category or merchant
\* makes the load fail or drops a row.  Stated of the first load into the
\* empty table.
C5_FilterIsTheOnlyRejection ==
  JustRan("load_fact_sentiment") =>
    /\ ~LastStep.error
    /\ \A i \in DOMAIN raw_transactions :
         IsRepresentative(i) =>
           ( InFact(i) <=>
               /\ Resolves(i)
               /\ ~IsNull(TryCastDecimal(raw_transactions[i].amount, 10, 2))
               /\ Val(TryCastDecimal(raw_transactions[i].amount, 10, 2)) > -1000 * 100
               /\ Val(TryCastDecimal(raw_transactions[i].amount, 10, 2)) < 50000 * 100 )

HasDecimalComma(x) == ~IsNull(x) /\ \E k \in DOMAIN Val(x) : Val(x)[k] = ","

\* C6: after a load that succeeded, a representative whose amount is
\* written with a decimal comma, whose value is inside (-1000, 50000) and
\* whose customer resolves is in fact_transactions, amount_eur being the
\* same number written with a decimal point.
C6_DecimalCommaAccepted ==
  (JustRan("load_fact_sentiment") /\ ~LastStep.error) =>
    \A i \in DOMAIN raw_transactions :
      LET v == TryCastDecimal(REPLACE(raw_transactions[i].amount, ",", "."), 10, 2)
      IN  ( /\ IsRepresentative(i)
            /\ HasDecimalComma(raw_transactions[i].amount)
            /\ Resolves(i)
            /\ ~IsNull(v) /\ Val(v) > -1000 * 100 /\ Val(v) < 50000 * 100 )
          => \E f \in DOMAIN fact_transactions :
               /\ fact_transactions[f].transaction_id = raw_transactions[i].transaction_id
               /\ fact_transactions[f].amount_eur = v

\* The age text is not an integer in 0..150
InvalidAge(x) ==
  ~IsNull(x) /\ ( \/ IsNull(TryCastInteger(x))
                  \/ Val(TryCastInteger(x)) < 0
                  \/ Val(TryCastInteger(x)) > 150 )

\* C7: after the first customer load, every non-NULL customer_id of
\* raw_customers has exactly one dim_customers row, and a row whose staging
\* age or signup_date is invalid has NULL in that field and is there.
C7_InvalidAgeOnlyNullsTheField ==
  JustRan("load_fact_transactions") =>
    /\ \A i \in DOMAIN raw_customers :
         ~IsNull(raw_customers[i].customer_id) =>
           Cardinality({d \in DOMAIN dim_customers :
             dim_customers[d].customer_id = raw_customers[i].customer_id}) = 1
    /\ \A d \in DOMAIN dim_customers :
         \E i \in DOMAIN raw_customers :
           /\ raw_customers[i].customer_id = dim_customers[d].customer_id
           /\ InvalidAge(raw_customers[i].age) => IsNull(dim_customers[d].age)
           /\ IsNull(TryCastDate(raw_customers[i].signup_date))
                => IsNull(dim_customers[d].signup_date)

\* At most one row per non-NULL key
OnePerKey(rows, col) ==
  \A i, j \in DOMAIN rows :
    (i # j /\ ~IsNull(rows[i][col])) => rows[i][col] # rows[j][col]

NoNullKey(rows, col) == \A i \in DOMAIN rows : ~IsNull(rows[i][col])

\* Applying the rule to any of its results gives that result again
DedupTwiceIsOnce ==
  /\ \A out \in DedupCustomers(raw_customers) : DedupCustomers(out) = {out}
  /\ \A out \in DedupTransactions(raw_transactions) : DedupTransactions(out) = {out}
  /\ \A out \in DedupSentiment(raw_sentiment) : DedupSentiment(out) = {out}

\* C8 as stated: each dedup rule returns exactly its input when the input
\* has at most one row per non-NULL key, and twice is once.
C8_DedupIdempotentAsStated ==
  /\ OnePerKey(raw_customers, "customer_id")
       => DedupCustomers(raw_customers) = {raw_customers}
  /\ OnePerKey(raw_transactions, "transaction_id")
       => DedupTransactions(raw_transactions) = {raw_transactions}
  /\ OnePerKey(raw_sentiment, "id")
       => DedupSentiment(raw_sentiment) = {raw_sentiment}
  /\ DedupTwiceIsOnce

\* C8, amended: each dedup rule returns exactly its input when the input
\* has no NULL key and at most one row per key, and applying it twice to
\* any staging set gives the same result as applying it once.
C8_DedupIdempotent ==
  /\ (NoNullKey(raw_customers, "customer_id") /\ OnePerKey(raw_customers, "customer_id"))
       => DedupCustomers(raw_customers) = {raw_customers}
  /\ (NoNullKey(raw_transactions, "transaction_id")
        /\ OnePerKey(raw_transactions, "transaction_id"))
       => DedupTransactions(raw_transactions) = {raw_transactions}
  /\ (NoNullKey(raw_sentiment, "id") /\ OnePerKey(raw_sentiment, "id"))
       => DedupSentiment(raw_sentiment) = {raw_sentiment}
  /\ DedupTwiceIsOnce

\* The customer load has run on a customers table with two rows of one key
\* (the rule drops one) beside a transactions table of two distinct keys
\* (the rule keeps both)
C8_Witness ==
  /\ pc = "load_fact_transactions"
  /\ \E out \in DedupCustomers(raw_customers) : Len(out) < Len(raw_customers)
  /\ ~OnePerKey(raw_customers, "customer_id")
  /\ Len(raw_transactions) >= 2
  /\ NoNullKey(raw_transactions, "transaction_id")
  /\ OnePerKey(raw_transactions, "transaction_id")

\* Transactions of a customer, by position in fact_transactions
TxnsOf(c) == {t \in DOMAIN fact_transactions : fact_transactions[t].customer_id = c}

TxnCountOf(c) == Cardinality({fact_transactions[t].transaction_id : t \in TxnsOf(c)})

\* C9: a load_customer_profile step that succeeds on an empty
\* customer_profile leaves exactly one row for every dim_customers row and
\* no others; a customer without transactions has txn_count 0.
C9_OneProfilePerCustomer ==
  [][ ( /\ pc = "load_customer_profile"
        /\ pc' = "done"
        /\ customer_profile = <<>>
        /\ ~steps'[Len(steps')].error )
      => /\ \A d \in DOMAIN dim_customers' :
              Cardinality({p \in DOMAIN customer_profile' :
                customer_profile'[p].customer_id = dim_customers'[d].customer_id}) = 1
         /\ \A p \in DOMAIN customer_profile' :
              /\ \E d \in DOMAIN dim_customers' :
                   dim_customers'[d].customer_id = customer_profile'[p].customer_id
              /\ (\A t \in DOMAIN fact_transactions' :
                    fact_transactions'[t].customer_id
                      # customer_profile'[p].customer_id)
                   => customer_profile'[p].txn_count = 0 ]_vars

\* A successful first profile load with a customer that has transactions
\* and a customer that has none
C9_Witness ==
  /\ JustRan("done") /\ ~LastStep.error
  /\ \E p, q \in DOMAIN customer_profile :
       /\ customer_profile[p].txn_count = 0
       /\ TxnsOf(customer_profile[p].customer_id) = {}
       /\ customer_profile[q].txn_count > 0

\* Days between the earliest and the latest transaction of a customer
SpanOf(c) ==
  LET days == {Val(fact_transactions[t].transaction_date) : t \in TxnsOf(c)}
  IN  MaxOf(days) - MinOf(days)

NullGuards(p) ==
  /\ IsNull(customer_profile[p].sports_affinity_ratio)
       <=> TxnCountOf(customer_profile[p].customer_id) = 0
  /\ IsNull(customer_profile[p].avg_days_between_txns)
       <=> TxnCountOf(customer_profile[p].customer_id) <= 1

NoDivisionError == \A k \in DOMAIN steps : steps[k].reason # "Division by zero"

\* C10 as stated: the ratio is NULL exactly with zero transactions, the
\* interval exactly with at most one, otherwise the interval equals
\* (latest - earliest) / (txn_count - 1); no division error is raised.
\* avg_days_between_txns is held in tenths of a day.
C10_IntervalExactAsStated ==
  /\ NoDivisionError
  /\ \A p \in DOMAIN customer_profile :
       LET c == customer_profile[p].customer_id
       IN  /\ NullGuards(p)
           /\ TxnCountOf(c) > 1 =>
                Val(customer_profile[p].avg_days_between_txns) * (TxnCountOf(c) - 1)
                  = 10 * SpanOf(c)

\* C10, amended: ... otherwise the interval equals (latest - earliest) /
\* (txn_count - 1) rounded to one decimal place, i.e. it is a tenth of a day
\* nearest to the quotient.
C10_IntervalRounded ==
  /\ NoDivisionError
  /\ \A p \in DOMAIN customer_profile :
       LET c == customer_profile[p].customer_id
       IN  /\ NullGuards(p)
           /\ TxnCountOf(c) > 1 =>
                2 * Abs(Val(customer_profile[p].avg_days_between_txns)
                          * (TxnCountOf(c) - 1) - 10 * SpanOf(c))
                  <= TxnCountOf(c) - 1

\* A profile with a customer of four transactions over one day (a third of
\* a day apart, stored as 0.3) beside a customer without transactions
C10_Witness ==
  \E p, q \in DOMAIN customer_profile :
    /\ TxnCountOf(customer_profile[p].customer_id) = 4
    /\ SpanOf(customer_profile[p].customer_id) = 1
    /\ customer_profile[p].avg_days_between_txns = Some(3)
    /\ TxnCountOf(customer_profile[q].customer_id) = 0
    /\ IsNull(customer_profile[q].avg_days_between_txns)
    /\ IsNull(customer_profile[q].sports_affinity_ratio)

\* The rows of the table that hold NULL in the column
NullsIn(rows, col) == Cardinality({i \in DOMAIN rows : rows[i][col] = NULL})

\* The profile flags exactly the columns the pipeline did not add whose
\* share of NULLs is above three tenths
FlagsAboveThreeTenths(profile, rows, columns) ==
  /\ ~profile.error
  /\ profile.row_count = Len(rows)
  /\ \A c \in columns :
       c \in DOMAIN profile.high_null_columns
         <=> /\ c \notin {"_row_id", "_load_timestamp"}
             /\ Len(rows) > 0
             /\ 10 * NullsIn(rows, c) > 3 * Len(rows)

\* C11: _validate_table flags a non-internal column if and only if
\* null_count / row_count is strictly greater than 0.30: a column with
\* exactly 30% NULLs is not flagged, and a table of no rows has no flagged
\* column and raises no division error.
C11_NullRateFlag ==
  validation.pass = "raw" =>
    /\ FlagsAboveThreeTenths(validation.customers.table, raw_customers,
                             CustomerColumns)
    /\ FlagsAboveThreeTenths(validation.transactions.table, raw_transactions,
                             TransactionColumns)
    /\ FlagsAboveThreeTenths(validation.sentiment.table, raw_sentiment,
                             SentimentColumns)
    /\ raw_transactions = <<>>
         => validation.transactions.table.high_null_columns = <<>>

\* Ten customers of which exactly three have no email, not flagged, beside
\* a transactions table of no rows, profiled without error
C11_Witness ==
  /\ validation.pass = "raw"
  /\ Len(raw_customers) = 10
  /\ NullsIn(raw_customers, "email") = 3
  /\ "email" \notin DOMAIN validation.customers.table.high_null_columns
  /\ raw_transactions = <<>>
  /\ ~validation.transactions.table.error
  /\ validation.transactions.table.row_count = 0

\* The rows of the table whose key is the value k
RowsOfKey(rows, col, k) == {i \in DOMAIN rows : rows[i][col] = Some(k)}

\* The key values that more than one row of the table carries
RepeatedKeys(rows, col) ==
  {k \in {Val(rows[i][col]) : i \in {j \in DOMAIN rows : rows[j][col] # NULL}} :
     Cardinality(RowsOfKey(rows, col, k)) > 1}

\* The result lists each repeated key once with its number of rows, the
\* larger numbers first
ListsRepeatedKeys(d, rows, col) ==
  /\ ~d.error
  /\ d.count = Cardinality(RepeatedKeys(rows, col))
  /\ d.found <=> d.count > 0
  /\ d.found =>
       /\ Len(d.duplicates) = d.count
       /\ {d.duplicates[i].key : i \in DOMAIN d.duplicates} = RepeatedKeys(rows, col)
       /\ \A i \in DOMAIN d.duplicates :
            d.duplicates[i].occurrences
              = Cardinality(RowsOfKey(rows, col, d.duplicates[i].key))
       /\ \A i, j \in DOMAIN d.duplicates :
            i < j => d.duplicates[i].occurrences >= d.duplicates[j].occurrences

\* C12: _find_duplicates returns one entry per non-NULL key value that more
\* than one row carries, with occurrences equal to its number of rows, in
\* order of non-increasing occurrences; count is the number of such values
\* and found is true iff count > 0.  Five rows of one transaction_id and no
\* other duplicate give found = true, count = 1 and one entry of 5.
C12_DuplicatesListed ==
  validation.pass = "raw" =>
    /\ ListsRepeatedKeys(validation.customers.duplicates, raw_customers,
                         "customer_id")
    /\ ListsRepeatedKeys(validation.transactions.duplicates, raw_transactions,
                         "transaction_id")
    /\ ListsRepeatedKeys(validation.sentiment.duplicates, raw_sentiment, "id")
    /\ ( Len(raw_transactions) = 5
         /\ \A i \in DOMAIN raw_transactions :
              raw_transactions[i].transaction_id = Some(Str_T(1)) )
         => validation.transactions.duplicates
              = [error |-> FALSE, found |-> TRUE, count |-> 1,
                 duplicates |-> <<[key |-> Str_T(1), occurrences |-> 5]>>]

\* Five transactions of one id, reported as one duplicate of five rows,
\* beside a sentiment table without duplicates
C12_Witness ==
  /\ validation.pass = "raw"
  /\ Len(raw_transactions) = 5
  /\ \A i \in DOMAIN raw_transactions :
       raw_transactions[i].transaction_id = Some(Str_T(1))
  /\ validation.transactions.duplicates.found
  /\ validation.transactions.duplicates.count = 1
  /\ validation.transactions.duplicates.duplicates[1].occurrences = 5
  /\ ~validation.sentiment.duplicates.found
  /\ validation.sentiment.duplicates.count = 0

\* The transactions whose customer_id is not NULL and is the customer_id of
\* no row of raw_customers
RawOrphans ==
  {i \in DOMAIN raw_transactions :
     /\ raw_transactions[i].customer_id # NULL
     /\ \A j \in DOMAIN raw_customers :
          raw_customers[j].customer_id # raw_transactions[i].customer_id}

\* C13: for every content of the staging tables, raw_customers with rows of
\* NULL customer_id included, _find_orphan_keys reports count equal to the
\* number of raw_transactions rows whose customer_id is not NULL and equals
\* the customer_id of no raw_customers row, and found = (count > 0).
C13_OrphanKeysCounted ==
  validation.pass = "raw" =>
    /\ ~validation.transactions.orphan_keys.error
    /\ validation.transactions.orphan_keys.count = Cardinality(RawOrphans)
    /\ validation.transactions.orphan_keys.found <=> Cardinality(RawOrphans) > 0

\* The normal form of a key: trimmed and in lower case
NormalKey(x) == LOWER(TRIM(x))

\* The transactions whose customer_id is the customer_id of no staging
\* customer, but differs from one only in letter case or surrounding blanks
CaseVariants ==
  {i \in DOMAIN raw_transactions :
     /\ raw_transactions[i].customer_id # NULL
     /\ \A j \in DOMAIN raw_customers :
          raw_customers[j].customer_id # raw_transactions[i].customer_id
     /\ \E j \in DOMAIN raw_customers :
          /\ raw_customers[j].customer_id # NULL
          /\ NormalKey(raw_customers[j].customer_id)
               = NormalKey(raw_transactions[i].customer_id)}

\* C14: a staging transaction whose customer_id differs from a staging
\* customer's only in letter case or surrounding whitespace is counted by
\* the raw orphan-key check, is in fact_transactions after the transform
\* (its amount being valid), and the referential-integrity check of the
\* cleaned tables then reports no orphan.  Stated of the first run over
\* staging in which every customer has a key.
C14_CaseVariantOrphanedRawMatchedClean ==
  (JustRan("done") /\ NoNullKey(raw_customers, "customer_id")) =>
    /\ validation.pass = "raw" =>
         validation.transactions.orphan_keys.count >= Cardinality(CaseVariants)
    /\ \A i \in CaseVariants :
         ( /\ IsRepresentative(i)
           /\ ~IsNull(FilterAmount(raw_transactions[i]))
           /\ AmountInRange(FilterAmount(raw_transactions[i]))
           /\ raw_transactions[i].category # NULL
           /\ \E d \in DOMAIN dim_customers :
                NormalKey(dim_customers[d].customer_id)
                  = NormalKey(raw_transactions[i].customer_id) )
         => InFact(i)
    /\ validation.pass = "transformed" =>
         /\ ~validation.raised
         /\ validation.fact_transactions.referential_integrity.valid

\* The fact_transactions rows whose customer_id no dim_customers row has
CleanOrphans ==
  {i \in DOMAIN fact_transactions :
     \A d \in DOMAIN dim_customers :
       dim_customers[d].customer_id # fact_transactions[i].customer_id}

\* C15: _check_foreign_keys reports orphan_count equal to the number of
\* fact_transactions rows whose customer_id is absent from dim_customers,
\* and valid = true if and only if that number is zero.
C15_ForeignKeysCounted ==
  (validation.pass = "transformed" /\ ~validation.raised) =>
    LET ri == validation.fact_transactions.referential_integrity
    IN  /\ ~ri.error
        /\ ri.orphan_count = Cardinality(CleanOrphans)
        /\ ri.valid <=> Cardinality(CleanOrphans) = 0

\* The check has run over two loaded transactions of a loaded customer and
\* found them valid
C15_Witness ==
  /\ validation.pass = "transformed" /\ ~validation.raised
  /\ Len(fact_transactions) = 2
  /\ Len(dim_customers) >= 1
  /\ validation.fact_transactions.referential_integrity.valid
  /\ validation.fact_transactions.referential_integrity.orphan_count = 0

\* The entries of a complete step log, in order
StepNames ==
  <<"Tables created", "dim_customers", "fact_transactions", "fact_sentiment",
    "customer_profile">>

\* The number of steps of the run that have been executed
StepsDone ==
  CASE pc = "create_tables"          -> 0
    [] pc = "load_dim_customers"     -> 1
    [] pc = "load_fact_transactions" -> 2
    [] pc = "load_fact_sentiment"    -> 3
    [] pc = "load_customer_profile"  -> 4
    [] pc = "done"                   -> 5
    [] pc = "idle"                   -> 0

\* C16: when a load step of transform_all hits an SQL or constraint error,
\* the error is caught, exactly one ERROR entry is appended to the step log
\* for that step, and every later step still executes and appends its own
\* entry: at any point of a run the log holds one entry for each step
\* executed so far, failed or not, each under the name of its step; in the
\* first run a failed load has left its table empty and a successful one
\* has logged the number of rows of its table.
C16_FailedStepLoggedRunContinues ==
  /\ Len(steps) = StepsDone
  /\ \A k \in DOMAIN steps : steps[k].step = StepNames[k]
  /\ runs = 1 =>
       \A k \in DOMAIN steps :
         k > 1 => IF steps[k].error THEN Targets[k - 1] = <<>>
                  ELSE steps[k].row_count = Len(Targets[k - 1])

\* A finished run whose customer load failed and whose three later loads
\* each logged their own entry, the last without error
C16_Witness ==
  /\ pc = "done"
  /\ Len(steps) = 5
  /\ steps[2].error /\ steps[2].step = "dim_customers"
  /\ steps[3].step = "fact_transactions"
  /\ steps[4].step = "fact_sentiment"
  /\ steps[5].step = "customer_profile" /\ ~steps[5].error

\* C17: during validate_raw_data and validate_transformed_data a query
\* failure in any single check (table profile, duplicate detection, orphan
\* keys, referential integrity, uniqueness) is recorded as an error field
\* of that check's result, and every other table and check of the same pass
\* is still evaluated and reported: every pass hands back a report with an
\* entry for each of its tables, and over missing target tables each check
\* of the transformed pass carries an error.
C17_FailedCheckRecorded ==
  /\ validation.pass = "raw" =>
       /\ ~validation.raised
       /\ DOMAIN validation.customers = {"table", "duplicates"}
       /\ DOMAIN validation.transactions = {"table", "duplicates", "orphan_keys"}
       /\ DOMAIN validation.sentiment = {"table", "duplicates"}
  /\ validation.pass = "transformed" =>
       /\ ~validation.raised
       /\ DOMAIN validation.dim_customers = {"table", "customer_id_unique"}
       /\ DOMAIN validation.fact_transactions = {"table", "referential_integrity"}
       /\ DOMAIN validation.customer_profile = {"table"}
       /\ ~tables_exist =>
            /\ validation.dim_customers.table.error
            /\ validation.fact_transactions.table.error
            /\ validation.fact_transactions.referential_integrity.error
            /\ validation.customer_profile.table.error

\* C18: no exception escapes transform_all, validate_raw_data or
\* validate_transformed_data to the caller, whatever the state of the store
\* (missing tables included): a validation pass never ends by raising, and
\* a transformer that has been started is at one of its steps or has
\* returned its report.
C18_NoExceptionEscapes ==
  /\ ~validation.raised
  /\ runs > 0 => pc \in {"create_tables", "load_dim_customers",
                         "load_fact_transactions", "load_fact_sentiment",
                         "load_customer_profile", "done"}

\* The load of the step at pc, seeing its table populated, fails and leaves
\* the table as it was
RejectedWhenPopulated(at, table, table_after) ==
  (pc = at /\ table # <<>>) =>
    /\ table_after = table
    /\ steps'[Len(steps')].error

\* The load of the step at pc, seeing its table populated, adds rows again
GrowsWhenPopulated(at, table, table_after) ==
  (pc = at /\ table # <<>>) => Len(table_after) > Len(table)

C20_SentimentRanges ==
  \A i \in DOMAIN fact_sentiment :
    /\ \/ IsNull(fact_sentiment[i].sentiment_score)
       \/ /\ Val(fact_sentiment[i].sentiment_score) >= -100
          /\ Val(fact_sentiment[i].sentiment_score) <= 100
    /\ \/ IsNull(fact_sentiment[i].engagement)
       \/ Val(fact_sentiment[i].engagement) >= 0

\* C21: neither validation pass nor any transform step changes the staging
\* tables: raw_customers, raw_transactions and raw_sentiment are the same
\* before and after every step, and a step of the validator (one that
\* leaves the transformer where it is) also leaves dim_customers,
\* fact_transactions, fact_sentiment and customer_profile unchanged.
C21_StagingAndValidationFrame ==
  [][ /\ raw_customers' = raw_customers
      /\ raw_transactions' = raw_transactions
      /\ raw_sentiment' = raw_sentiment
      /\ (pc' = pc /\ runs' = runs) =>
           /\ dim_customers' = dim_customers
           /\ fact_transactions' = fact_transactions
           /\ fact_sentiment' = fact_sentiment
           /\ customer_profile' = customer_profile ]_vars

\* Both passes have run on one validator after a transform that loaded
\* every table, over staging that holds rows
C21_Witness ==
  /\ pc = "done"
  /\ validation.pass = "transformed" /\ ~validation.raised
  /\ validator_report = {"raw_data", "transformed_data"}
  /\ raw_customers # <<>> /\ raw_transactions # <<>> /\ raw_sentiment # <<>>
  /\ dim_customers # <<>> /\ fact_transactions # <<>>
  /\ fact_sentiment # <<>> /\ customer_profile # <<>>

\* C22: customer and sentiment dedup are deterministic: for fixed staging
\* contents the cleaned row chosen for each key is uniquely determined,
\* also when several staging rows of one key carry the same
\* _load_timestamp.
C22_DedupDeterministic ==
  /\ \A a, b \in DedupCustomers(raw_customers) :
       CleanCustomers(a) = CleanCustomers(b)
  /\ \A a, b \in DedupSentiment(raw_sentiment) :
       CleanSentiments(a) = CleanSentiments(b)

\* The customer's distinct transactions whose category equals
\* 'match_tickets' or contains 'sports'
SportsTxnsOf(c) ==
  {fact_transactions[t].transaction_id :
     t \in {u \in TxnsOf(c) :
              LET cat == fact_transactions[u].category
              IN  ~IsNull(cat) /\ ( \/ Val(cat) = Str_match_tickets
                                    \/ Contains(Val(cat), Str_sports) )}}

\* match_ticket_count <= numerator <= txn_count, and the ratio (held in
\* hundredths) lies in [0, 1]
RatioBounds(p) ==
  LET c == customer_profile[p].customer_id
  IN  /\ customer_profile[p].txn_count = TxnCountOf(c)
      /\ customer_profile[p].match_ticket_count <= Cardinality(SportsTxnsOf(c))
      /\ Cardinality(SportsTxnsOf(c)) <= customer_profile[p].txn_count
      /\ Val(customer_profile[p].sports_affinity_ratio) >= 0
      /\ Val(customer_profile[p].sports_affinity_ratio) <= 100

\* C23 as stated: for every customer_profile row with txn_count > 0,
\* sports_affinity_ratio equals the number of the customer's distinct
\* transactions in a sports category divided by txn_count;
\* match_ticket_count <= that number <= txn_count and the ratio is in [0,1].
C23_RatioExactAsStated ==
  \A p \in DOMAIN customer_profile :
    customer_profile[p].txn_count > 0 =>
      /\ ~IsNull(customer_profile[p].sports_affinity_ratio)
      /\ RatioBounds(p)
      /\ Val(customer_profile[p].sports_affinity_ratio) * customer_profile[p].txn_count
           = 100 * Cardinality(SportsTxnsOf(customer_profile[p].customer_id))

\* C23, amended: ... sports_affinity_ratio equals that quotient rounded to
\* two decimal places, i.e. it is a hundredth nearest to the quotient; the
\* bounds hold as stated.
C23_RatioRounded ==
  \A p \in DOMAIN customer_profile :
    customer_profile[p].txn_count > 0 =>
      /\ ~IsNull(customer_profile[p].sports_affinity_ratio)
      /\ RatioBounds(p)
      /\ 2 * Abs(Val(customer_profile[p].sports_affinity_ratio)
                   * customer_profile[p].txn_count
                 - 100 * Cardinality(SportsTxnsOf(customer_profile[p].customer_id)))
           <= customer_profile[p].txn_count

\* A profile row of three transactions, one a match ticket and one other
\* sports purchase: two thirds, stored as 0.67
C23_Witness ==
  \E p \in DOMAIN customer_profile :
    /\ customer_profile[p].txn_count = 3
    /\ customer_profile[p].match_ticket_count = 1
    /\ Cardinality(SportsTxnsOf(customer_profile[p].customer_id)) = 2
    /\ customer_profile[p].sports_affinity_ratio = Some(67)

\* The successor of each position of transform_all
StepOrder ==
  { <<"idle", "create_tables">>, <<"done", "create_tables">>,
    <<"create_tables", "load_dim_customers">>,
    <<"load_dim_customers", "load_fact_transactions">>,
    <<"load_fact_transactions", "load_fact_sentiment">>,
    <<"load_fact_sentiment", "load_customer_profile">>,
    <<"load_customer_profile", "done">> }

\* C24: transform_all executes its steps in the fixed order create tables,
\* dim_customers, fact_transactions, fact_sentiment, customer_profile; the
\* transaction load, the only step that reads dim_customers through the
\* filter, starts with the customer load's entry (rows or ERROR) as the
\* last of the log; the log grows by exactly one entry per step, and the
\* log returned at the end holds the five entries in that order.
C24_FixedStepOrder ==
  [][ /\ pc' # pc => <<pc, pc'>> \in StepOrder
      /\ steps' # steps =>
           \/ (pc' = "create_tables" /\ steps' = <<>>)
           \/ /\ pc' # pc
              /\ Len(steps') = Len(steps) + 1
              /\ SubSeq(steps', 1, Len(steps)) = steps
      /\ (pc = "load_fact_transactions" /\ pc' # pc) =>
           /\ Len(steps) = 2
           /\ steps[2].step = "dim_customers"
           /\ dim_customers' = dim_customers
      /\ dim_customers' # dim_customers => pc = "load_dim_customers"
      /\ fact_transactions' # fact_transactions => pc = "load_fact_transactions"
      /\ (pc' = "done" /\ pc # "done") =>
           [k \in DOMAIN steps' |-> steps'[k].step] = StepNames
    ]_vars

\* A finished first run in which the customer load and the transaction
\* load both stored rows, the transactions all of a loaded customer
C24_Witness ==
  /\ pc = "done" /\ runs = 1
  /\ [k \in DOMAIN steps |-> steps[k].step] = StepNames
  /\ ~steps[2].error /\ steps[2].row_count = 2
  /\ ~steps[3].error /\ steps[3].row_count >= 1
  /\ Len(fact_transactions) = steps[3].row_count
  /\ validation = NoReport

\* C25: validation is called once before and once after the transform and
\* the two results are the halves of one report: a report that
\* generate_report serializes after the transform with the transformed_data
\* half of the run also contains the raw_data half.
C25_ReportHoldsBothHalves ==
  ( /\ pc = "done"
    /\ validation.pass = "report"
    /\ "transformed_data" \in validation.halves )
    => "raw_data" \in validation.halves

\* The staging rows the customer dedup may keep for the key of row i of
\* dim_customers: the rows of that key with the earliest _load_timestamp
SourcesOf(i) ==
  {r \in DOMAIN raw_customers :
     /\ raw_customers[r].customer_id = dim_customers[i].customer_id
     /\ \A q \in DOMAIN raw_customers :
          raw_customers[q].customer_id = dim_customers[i].customer_id
            => raw_customers[q]._load_timestamp >= raw_customers[r]._load_timestamp}

\* C26: every dim_customers row has a non-null name; a row whose staging
\* row has a NULL name holds exactly 'unknown', any other row the trimmed,
\* lowercased staging name.
C26_NameDefaultsToUnknown ==
  \A i \in DOMAIN dim_customers :
    /\ ~IsNull(dim_customers[i].name)
    /\ \E r \in SourcesOf(i) :
         IF IsNull(raw_customers[r].name)
         THEN Val(dim_customers[i].name) = <<"u", "n", "k", "n", "o", "w", "n">>
         ELSE Val(dim_customers[i].name)
                = [k \in DOMAIN TrimChars(Val(raw_customers[r].name)) |->
                     LowerChar(TrimChars(Val(raw_customers[r].name))[k])]

\* Two loaded customers: one whose only staging row has no name, stored as
\* 'unknown', and one whose staging name ' Bob ' is stored as 'bob'
C26_Witness ==
  \E i, j \in DOMAIN dim_customers :
    /\ \A r \in SourcesOf(i) : IsNull(raw_customers[r].name)
    /\ dim_customers[i].name = Some(<<"u", "n", "k", "n", "o", "w", "n">>)
    /\ \A r \in SourcesOf(j) : raw_customers[r].name = Some(Str_Bob)
    /\ dim_customers[j].name = Some(<<"b", "o", "b">>)

\* The staging row passes the WHERE clause of the transaction load: its
\* customer is loaded, its amount parses and lies strictly inside
\* (-1000, 50000)
PassesFilter(i) ==
  /\ Resolves(i)
  /\ ~IsNull(TryCastDecimal(raw_transactions[i].amount, 10, 2))
  /\ Val(TryCastDecimal(raw_transactions[i].amount, 10, 2)) > -100000
  /\ Val(TryCastDecimal(raw_transactions[i].amount, 10, 2)) < 5000000

\* C27: the transaction dedup is applied before the filter: when the
\* staging row with the smallest _row_id of a transaction_id fails the
\* filter, that transaction_id is absent from fact_transactions, even if a
\* later staging row of the same transaction_id would pass.
C27_DedupBeforeFilter ==
  \A i \in DOMAIN raw_transactions :
    (IsRepresentative(i) /\ ~PassesFilter(i)) => ~InFact(i)

\* A finished first run whose transaction load succeeded: the first row of
\* a transaction_id fails the filter, a later row of the same id passes,
\* and the id is not in fact_transactions
C27_Witness ==
  /\ pc = "done" /\ runs = 1
  /\ ~steps[3].error
  /\ \E i, j \in DOMAIN raw_transactions :
       /\ IsRepresentative(i) /\ ~PassesFilter(i)
       /\ raw_transactions[j].transaction_id = raw_transactions[i].transaction_id
       /\ raw_transactions[j]._row_id > raw_transactions[i]._row_id
       /\ PassesFilter(j)
       /\ ~InFact(i)

\* C28: when the dim_customers load of a run on empty target tables fails,
\* the run ends with fact_transactions and customer_profile empty, both
\* steps having logged a 0-row entry and no error, and with fact_sentiment
\* loaded as the sentiment load loads it whatever the customers: the
\* cleaned deduplicated posts, logged with their number.
C28_FailedCustomerLoadEmptiesDependents ==
  (pc = "done" /\ runs = 1 /\ steps[2].error) =>
    /\ dim_customers = <<>>
    /\ fact_transactions = <<>>
    /\ customer_profile = <<>>
    /\ steps[3] = StepRows("fact_transactions", 0)
    /\ steps[5] = StepRows("customer_profile", 0)
    /\ steps[4] = StepRows("fact_sentiment", Len(fact_sentiment))
    /\ fact_sentiment \in {CleanSentiments(d) : d \in DedupSentiment(raw_sentiment)}

\* A finished first run whose customer load failed on an age outside
\* [0, 150], over transactions of that customer with amounts in range and
\* sentiment posts that are all loaded
C28_Witness ==
  /\ pc = "done" /\ runs = 1
  /\ steps[2].error /\ steps[2].step = "dim_customers"
  /\ \E r \in DOMAIN raw_customers :
       ~AgeCheckOk(TryCastInteger(raw_customers[r].age))
  /\ \E t \in DOMAIN raw_transactions :
       /\ \E r \in DOMAIN raw_customers :
            raw_customers[r].customer_id = raw_transactions[t].customer_id
       /\ ~IsNull(FilterAmount(raw_transactions[t]))
       /\ AmountInRange(FilterAmount(raw_transactions[t]))
  /\ fact_transactions = <<>>
  /\ fact_sentiment # <<>>
  /\ Len(fact_sentiment) = Len(raw_sentiment)

====
